---- MODULE Spec2Model ----
(***************************************************************************)
(* State-machine model of the consensus engine of Mini_Blockchain:         *)
(* src/consensus/state.py (NodeRegistry, TokenLedger, TurnState,           *)
(* VotesStore, AccusationsStore, ConsensusState) and                       *)
(* src/consensus/engine.py (ConsensusEngine).                              *)
(*                                                                         *)
(* Python dicts keep insertion order, and the code iterates them, so the   *)
(* registry and the vote store are sequences in insertion order.           *)
(* Optional values are <<>> (None) or <<v>>.  The 32-bit seed is kept as   *)
(* its two 16-bit halves [hi, lo], value hi * 65536 + lo.                  *)
(***************************************************************************)
EXTENDS Integers, Sequences, FiniteSets, TLC

VARIABLES nodes, next_order, frozen_tokens, current_turn, current_seed,
          seed_leader, votes, accusations, disk, lastOp, watch

vars == <<nodes, next_order, frozen_tokens, current_turn, current_seed,
          seed_leader, votes, accusations, disk, lastOp, watch>>

(* ----------------------------- bounds ---------------------------------- *)

\* freeze_tokens amounts are drawn from 1..MaxTokens
MaxTokens == 2
\* the leader's random byte is drawn from 0..MaxRand
MaxRand == 1
\* turn arguments of set_seed are drawn from 0..MaxTurn (and WrapTurn);
\* submit_block is explored while current_turn < MaxTurn or at WrapTurn
MaxTurn == 0

(* ----------------------------- inputs ---------------------------------- *)

\* the operation op is one of those under observation (watch is fixed in
\* the initial state); its calls are recorded in lastOp and it is called
\* with more kinds of arguments.  Besides the operations, watch may hold
\* "rejected" (the rejected calls of every operation are recorded), "turn"
\* (the turn numbers are under observation), "address" (nodes join with
\* malformed addresses too) and "revote" (nodes vote again with another
\* token)
Focused(op) == op \in watch

\* while the reports and expulsions, the reads or the turn numbers are
\* under observation, the operations of a voting round are called with one
\* argument of each kind
Narrow ==
    \/ Focused("report_leader") \/ Focused("tally_votes") \/ Focused("turn")
    \/ Focused("address") \/ Focused("revote")

\* while the rejected calls are under observation, the amounts and the seed
\* tokens are one of each kind
OneOfEach == Narrow \/ Focused("rejected")

\* the node ids, in the order in which the nodes join the network
JoinOrder == <<"n1", "n2", "n3">>

NodeIds == {JoinOrder[i] : i \in DOMAIN JoinOrder}

\* the addresses a node may register with (dotted quads as octet tuples)
RegIps(n) ==
    CASE n = "n1" -> {<<192, 168, 1, 10>>}
      [] n = "n2" -> {<<192, 168, 1, 20>>}
      [] OTHER    -> {<<192, 168, 1, 30>>}

\* strings that are no IPv4 address, each as the two halves of the value
\* hash(ip) & 0xFFFFFFFF has for it (the str hash is salted, so it may sort
\* before or after the addresses of the other nodes)
MalformedIps == {<<0, 7>>, <<65535, 7>>}

\* the addresses a node joins with: the last to join may come with the
\* address of the first (equal 32-bit values)
JoinIps(n) ==
    IF Focused("register_node") /\ n = JoinOrder[Len(JoinOrder)]
    THEN RegIps(n) \cup RegIps(JoinOrder[1])
            \cup (IF Focused("address") THEN MalformedIps ELSE {})
    ELSE RegIps(n)

Keys == {"pk_a"}

\* another address and another key, for the registration of an id that is
\* registered already
OtherIp == <<10, 0, 0, 1>>

OtherKey == "pk_b"

\* the amounts a node freezes: the first staker any amount up to MaxTokens
\* (and a negative one while freeze_tokens is under observation), the others
\* one token
FreezeAmounts(n) ==
    IF n = JoinOrder[1] /\ ~OneOfEach
    THEN (1..MaxTokens) \cup (IF Focused("freeze_tokens") THEN {-1} ELSE {})
    ELSE {1}

\* the last turn number before rollover
WrapTurn == 65535

\* a turn argument past the 16 bits of a turn number (SeedReq.turn is an
\* int without bounds)
OverTurn == 65536

TurnArgs ==
    (0..MaxTurn) \cup {WrapTurn}
        \cup (IF Focused("turn") THEN {OverTurn} ELSE {})

\* decoded bytes of the encryptedSeed token; fewer than 4 bytes takes the
\* hash fallback of extract_seed_value
SeedTokens == {<<b, 0, 0, 0>> : b \in 0..MaxRand} \cup {<<7>>}

\* a token with the value hash(token) & 0xFFFFFFFF would give for it, as
\* <<high, low>> halves (the str hash is salted per process, so any value
\* may come up; it is read for short tokens only)
SeedInputs ==
    IF OneOfEach /\ ~Focused("turn") THEN {<<<<0, 0, 0, 0>>, <<0, 0>>>>}
    ELSE {<<tok, <<0, 0>>>> : tok \in {t \in SeedTokens : Len(t) >= 4}}
         \cup {<<tok, <<1, v>>>> : tok \in {t \in SeedTokens : Len(t) < 4},
                                   v \in 0..MaxRand}

\* the encryptedVote tokens: a second one while the repeated votes are under
\* observation
VoteTokens == IF Focused("revote") THEN {"v1", "v2"} ELSE {"v1"}

\* the nodes that are reported, and those that report
Accused == IF Focused("report_leader") THEN NodeIds ELSE {"n3"}

Reporters == {"n1", "n2"}

\* the nodes that freeze tokens
Stakers == IF Narrow THEN {"n1"} ELSE {"n1", "n3"}

\* the nodes that vote: one while the reports or the ledger are under
\* observation, two while the repeated votes are
Voters ==
    IF Focused("revote") THEN {"n1", "n2"}
    ELSE IF Narrow \/ Focused("freeze_tokens") THEN {"n1"} ELSE NodeIds

(* ----------------------------- helpers --------------------------------- *)

None == <<>>

Some(x) == <<x>>

Range(s) == {s[i] : i \in DOMAIN s}

\* list.sort / sorted: stable sort, Before(a, b) iff a's key sorts strictly
\* before b's; elements with equal keys keep their relative order
SortedBy(seq, Before(_, _)) ==
    LET n == Len(seq)
        rank(i) == Cardinality({j \in 1..n : Before(seq[j], seq[i])})
                 + Cardinality({j \in 1..(i - 1) :
                        ~Before(seq[j], seq[i]) /\ ~Before(seq[i], seq[j])})
    IN  [k \in 1..n |-> seq[CHOOSE i \in 1..n : rank(i) = k - 1]]

Filter(seq, Test(_)) == SelectSeq(seq, Test)

RECURSIVE SumSeq(_)
SumSeq(s) == IF s = <<>> THEN 0 ELSE Head(s) + SumSeq(Tail(s))

Max0(x) == IF x > 0 THEN x ELSE 0

(* ----------------------------- Node ------------------------------------ *)

\* the string is an address inet_aton accepts: four octets
WellFormed(ip) == Len(ip) = 4

\* Node.ip_as_int: struct.unpack("!I", inet_aton(ip)), the big-endian 32-bit
\* value, kept as its two 16-bit halves <<high, low>>; for a string that
\* inet_aton rejects, hash(ip) & 0xFFFFFFFF, which the malformed address
\* carries
ip_as_int(ip) ==
    IF WellFormed(ip)
    THEN <<ip[1] * 256 + ip[2], ip[3] * 256 + ip[4]>>
    ELSE ip

\* x < y on 32-bit values kept as halves
Less32(x, y) == x[1] < y[1] \/ (x[1] = y[1] /\ x[2] < y[2])

Node(nodeId, ip, publicKey, assignedOrder) ==
    [nodeId |-> nodeId, ip |-> ip, publicKey |-> publicKey,
     assignedOrder |-> assignedOrder, active |-> TRUE]

(* ----------------------------- NodeRegistry ---------------------------- *)

\* nodeId in self.nodes
Registered(reg, nodeId) == \E i \in DOMAIN reg : reg[i].nodeId = nodeId

\* self.nodes[nodeId]
NodeOf(reg, nodeId) == reg[CHOOSE i \in DOMAIN reg : reg[i].nodeId = nodeId]

IsActive(n) == n.active

ActiveNodes(reg) == Filter(reg, IsActive)

\* the sort without reverse=True: lowest address first
ByIpAsc(a, b) == Less32(ip_as_int(a.ip), ip_as_int(b.ip))

\* key=lambda n: n.ip_as_int(), reverse=True
ByIpDesc(a, b) == Less32(ip_as_int(b.ip), ip_as_int(a.ip))

\* NodeRegistry._reorder_nodes: active nodes, sorted by IP descending
\* (stable, reverse=True keeps insertion order of equal keys), get 0..k-1;
\* inactive nodes keep the order they had
reorder_nodes(reg) ==
    LET sorted == SortedBy(ActiveNodes(reg), ByIpDesc)
        pos(id) == CHOOSE k \in DOMAIN sorted : sorted[k].nodeId = id
    IN  [i \in DOMAIN reg |->
            IF reg[i].active
            THEN [reg[i] EXCEPT !.assignedOrder = pos(reg[i].nodeId) - 1]
            ELSE reg[i]]

\* key=lambda n: n.assignedOrder
ByAssignedOrder(a, b) == a.assignedOrder < b.assignedOrder

\* NodeRegistry.get_nodes_ordered
get_nodes_ordered(reg) == SortedBy(ActiveNodes(reg), ByAssignedOrder)

\* get_leader_for_turn over all the nodes, the inactive ones too
get_leader_for_turn_any_node(reg, turn) ==
    LET all_nodes == SortedBy(reg, ByAssignedOrder)
    IN  IF all_nodes = <<>> THEN None
        ELSE Some(all_nodes[(turn % Len(all_nodes)) + 1].nodeId)

\* NodeRegistry.get_leader_for_turn
get_leader_for_turn(reg, turn) ==
    LET active_nodes == SortedBy(ActiveNodes(reg), ByAssignedOrder)
    IN  IF active_nodes = <<>> THEN None
        ELSE Some(active_nodes[(turn % Len(active_nodes)) + 1].nodeId)

\* register_node that takes the address and the key of a repeated
\* registration
registry_register_node_overwrite(reg, order, nodeId, ip, publicKey) ==
    IF Registered(reg, nodeId)
    THEN reorder_nodes([i \in DOMAIN reg |->
            IF reg[i].nodeId = nodeId
            THEN [reg[i] EXCEPT !.ip = ip, !.publicKey = publicKey]
            ELSE reg[i]])
    ELSE reorder_nodes(Append(reg, Node(nodeId, ip, publicKey, order)))

\* NodeRegistry.register_node, the registry after the call
registry_register_node(reg, order, nodeId, ip, publicKey) ==
    IF Registered(reg, nodeId) THEN reg
    ELSE reorder_nodes(Append(reg, Node(nodeId, ip, publicKey, order)))

\* ban_node without the call of _reorder_nodes
ban_node_without_reorder(reg, nodeId) ==
    [i \in DOMAIN reg |->
        IF reg[i].nodeId = nodeId THEN [reg[i] EXCEPT !.active = FALSE]
        ELSE reg[i]]

\* NodeRegistry.ban_node
ban_node(reg, nodeId) ==
    IF Registered(reg, nodeId)
    THEN reorder_nodes([i \in DOMAIN reg |->
            IF reg[i].nodeId = nodeId THEN [reg[i] EXCEPT !.active = FALSE]
            ELSE reg[i]])
    ELSE reg

(* ----------------------------- TokenLedger ----------------------------- *)

\* TokenLedger.freeze_tokens: self.frozen_tokens[nodeId] = tokens
ledger_freeze_tokens(ft, nodeId, tokens) ==
    [x \in (DOMAIN ft) \cup {nodeId} |-> IF x = nodeId THEN tokens ELSE ft[x]]

\* TokenLedger.get_tokens: self.frozen_tokens.get(nodeId, 0)
get_tokens(ft, nodeId) == IF nodeId \in DOMAIN ft THEN ft[nodeId] ELSE 0

(* ----------------------------- seed ------------------------------------ *)

\* models.extract_seed_value: the first 4 decoded bytes, little-endian, as a
\* 32-bit value <<high, low>>; a token of fewer than 4 bytes (or one that
\* does not decode) gives hash(token) & 0xFFFFFFFF, here the value h
extract_seed_value(token, h) ==
    IF Len(token) >= 4
    THEN <<token[4] * 256 + token[3], token[2] * 256 + token[1]>>
    ELSE h

\* the seed without the turn in its upper half
generate_seed_without_turn(turn, token, h) ==
    [hi |-> 0, lo |-> extract_seed_value(token, h)[2] % 65536]

\* ConsensusEngine._generate_seed: (turn & 0xFFFF) << 16 | (value & 0xFFFF)
generate_seed(turn, token, h) ==
    [hi |-> turn % 65536, lo |-> extract_seed_value(token, h)[2] % 65536]

\* random.Random(seed).randrange(n) of CPython (Mersenne Twister), tabulated
\* for the seeds <<hi, lo>> and the totals n = 1..12 the model uses
MersenneTable ==
    (<<0, 0>> :> <<0, 1, 1, 3, 3, 3, 6, 6, 6, 6, 6, 6>>)
 @@ (<<0, 1>> :> <<0, 0, 0, 1, 1, 1, 1, 2, 2, 2, 2, 2>>)
 @@ (<<0, 2>> :> <<0, 0, 0, 0, 0, 0, 6, 0, 0, 0, 0, 0>>)
 @@ (<<1, 0>> :> <<0, 1, 1, 3, 3, 3, 3, 6, 6, 6, 6, 6>>)
 @@ (<<1, 1>> :> <<0, 1, 1, 3, 3, 3, 6, 6, 6, 6, 6, 6>>)
 @@ (<<1, 2>> :> <<0, 0, 2, 1, 4, 4, 4, 3, 8, 8, 8, 8>>)
 @@ (<<2, 0>> :> <<0, 0, 0, 0, 0, 0, 0, 0, 0, 0, 0, 0>>)
 @@ (<<2, 1>> :> <<0, 0, 2, 1, 1, 5, 5, 2, 2, 2, 10, 10>>)
 @@ (<<2, 2>> :> <<0, 1, 1, 2, 2, 2, 2, 4, 4, 4, 4, 4>>)
 @@ (<<65535, 0>> :> <<0, 0, 0, 1, 1, 1, 1, 3, 3, 3, 3, 3>>)
 @@ (<<65535, 1>> :> <<0, 0, 2, 0, 0, 5, 5, 1, 1, 1, 1, 11>>)
 @@ (<<65535, 2>> :> <<0, 0, 0, 0, 0, 0, 0, 0, 0, 0, 0, 0>>)

\* rng = random.Random(seed); target = rng.randrange(total_weight)
randrange(seed, total) == MersenneTable[<<seed.hi, seed.lo>>][total]

(* ----------------------------- weighted vote --------------------------- *)

\* weights of _calculate_weighted_vote: max(tokens, 0) per ordered node,
\* all 1 when they sum to 0
vote_weights(reg, ft) ==
    LET ordered == get_nodes_ordered(reg)
        weights == [i \in DOMAIN ordered |->
                        Max0(get_tokens(ft, ordered[i].nodeId))]
    IN  IF SumSeq(weights) = 0 THEN [i \in DOMAIN ordered |-> 1] ELSE weights

\* cumulative += weight for the first i weights
Cumulative(weights, i) == SumSeq(SubSeq(weights, 1, i))

\* the roulette that stops on a cumulative weight equal to the target
roulette_inclusive(weights, target) ==
    LET hits == {i \in DOMAIN weights : target <= Cumulative(weights, i)}
    IN  IF hits = {} THEN Len(weights) - 1
        ELSE (CHOOSE i \in hits : \A j \in hits : i <= j) - 1

\* the roulette loop of _calculate_weighted_vote: the index (from 0) of the
\* first weight at which target < cumulative, len(nodes) - 1 when there is
\* none
roulette(weights, target) ==
    LET hits == {i \in DOMAIN weights : target < Cumulative(weights, i)}
    IN  IF hits = {} THEN Len(weights) - 1
        ELSE (CHOOSE i \in hits : \A j \in hits : i <= j) - 1

\* ConsensusEngine._calculate_weighted_vote: index (from 0) of the selected
\* node in the ordered active nodes
calculate_weighted_vote(reg, ft, seed) ==
    LET ordered == get_nodes_ordered(reg)
        weights == vote_weights(reg, ft)
        target  == randrange(seed, SumSeq(weights))
    IN  IF ordered = <<>> THEN 0
        ELSE roulette(weights, target)

(* ----------------------------- VotesStore ------------------------------ *)

Vote(nodeId, encryptedVote, selectedIndex) ==
    [nodeId |-> nodeId, encryptedVote |-> encryptedVote,
     selectedIndex |-> selectedIndex]

\* a vote store that keeps the earlier vote of the node
store_record_vote_appending(vs, nodeId, encryptedVote, selectedIndex) ==
    Append(vs, Vote(nodeId, encryptedVote, selectedIndex))

\* VotesStore.record_vote: self.votes[nodeId] = Vote(...); an existing key
\* keeps its place in the dict
store_record_vote(vs, nodeId, encryptedVote, selectedIndex) ==
    IF \E i \in DOMAIN vs : vs[i].nodeId = nodeId
    THEN [i \in DOMAIN vs |->
            IF vs[i].nodeId = nodeId
            THEN Vote(nodeId, encryptedVote, selectedIndex) ELSE vs[i]]
    ELSE Append(vs, Vote(nodeId, encryptedVote, selectedIndex))

(* ----------------------------- tally ----------------------------------- *)

\* the test of the index without index 0
Counted_from_one(ordered, v) ==
    0 < v.selectedIndex /\ v.selectedIndex < Len(ordered)

\* the vote counts for a candidate: 0 <= vote.selectedIndex < len(nodes)
Counted(ordered, v) ==
    0 <= v.selectedIndex /\ v.selectedIndex < Len(ordered)

\* nodes[vote.selectedIndex].nodeId
SelectedNode(ordered, v) == ordered[v.selectedIndex + 1].nodeId

\* what one vote adds to vote_counts[selected_nodeId]
vote_weight(v) == 1

\* vote_counts of tally_votes: candidate -> accumulated votes
vote_counts(ordered, vs) ==
    LET counted == {i \in DOMAIN vs : Counted(ordered, vs[i])}
        cands   == {SelectedNode(ordered, vs[i]) : i \in counted}
    IN  [c \in cands |->
            SumSeq([k \in 1..Len(vs) |->
                IF k \in counted /\ SelectedNode(ordered, vs[k]) = c
                THEN vote_weight(vs[k]) ELSE 0])]

\* max(vote_counts, key=vote_counts.get): the first key, in the order the
\* keys entered the dict, that has the largest count
tally_winner(ordered, vs) ==
    LET vc == vote_counts(ordered, vs)
        first(c) == CHOOSE i \in DOMAIN vs :
                        /\ Counted(ordered, vs[i])
                        /\ SelectedNode(ordered, vs[i]) = c
                        /\ \A j \in 1..(i - 1) :
                            ~(/\ Counted(ordered, vs[j])
                              /\ SelectedNode(ordered, vs[j]) = c)
        best == {c \in DOMAIN vc : \A d \in DOMAIN vc : vc[d] <= vc[c]}
    IN  CHOOSE c \in best : \A d \in best : first(c) <= first(d)

\* the threshold rounded down: 2 * total_votes // 3
required_votes_floor(total_votes) == (2 * total_votes) \div 3

\* math.ceil(2 * total_votes / 3)
required_votes(total_votes) == (2 * total_votes + 2) \div 3

\* the comparison made strict: max_votes > required_votes
threshold_reached_strict(max_votes, total_votes) ==
    max_votes > required_votes(total_votes)

\* max_votes >= required_votes
threshold_reached(max_votes, total_votes) ==
    max_votes >= required_votes(total_votes)

NoResult ==
    [winner |-> None, agreement |-> <<0, 1>>, threshold_reached |-> FALSE]

\* ConsensusEngine.tally_votes: (winner, agreement, threshold_reached), the
\* agreement max_votes / total_votes kept as <<numerator, denominator>>
tally_votes(reg, vs) ==
    LET ordered == get_nodes_ordered(reg)
        vc      == vote_counts(ordered, vs)
    IN  IF vs = <<>> THEN NoResult
        ELSE IF ordered = <<>> THEN NoResult
        ELSE IF DOMAIN vc = {} THEN NoResult
        ELSE LET winner      == tally_winner(ordered, vs)
                 max_votes   == vc[winner]
                 total_votes == Len(vs)
             IN  [winner |-> Some(winner),
                  agreement |-> <<max_votes, total_votes>>,
                  threshold_reached |->
                        threshold_reached(max_votes, total_votes)]

(* ----------------------------- AccusationsStore ------------------------ *)

\* add_accusation without the membership test
add_accusation_always(acc, leaderId, reporterId) ==
    LET old == IF leaderId \in DOMAIN acc THEN acc[leaderId] ELSE <<>>
    IN  [x \in (DOMAIN acc) \cup {leaderId} |->
            IF x = leaderId THEN Append(old, reporterId) ELSE acc[x]]

\* AccusationsStore.add_accusation
add_accusation(acc, leaderId, reporterId) ==
    LET old == IF leaderId \in DOMAIN acc THEN acc[leaderId] ELSE <<>>
        new == IF reporterId \in Range(old) THEN old ELSE Append(old, reporterId)
    IN  [x \in (DOMAIN acc) \cup {leaderId} |->
            IF x = leaderId THEN new ELSE acc[x]]

\* AccusationsStore.get_accusation_count
get_accusation_count(acc, leaderId) ==
    IF leaderId \in DOMAIN acc THEN Len(acc[leaderId]) ELSE 0

\* AccusationsStore.clear_accusations
clear_accusations(acc, leaderId) ==
    [x \in (DOMAIN acc) \ {leaderId} |-> acc[x]]

\* the threshold rounded down: 2 * active_nodes // 3
required_accusations_floor(active_nodes) == (2 * active_nodes) \div 3

\* math.ceil(2 * active_nodes / 3)
required_accusations(active_nodes) == (2 * active_nodes + 2) \div 3

(* ----------------------------- ConsensusState -------------------------- *)

\* ConsensusState.save_state: what json.dump writes
save_state(reg, ft, turn, seed, leader, order) ==
    Some([nodes |-> reg, frozen_tokens |-> ft,
          turn_state |-> [current_turn |-> turn, current_seed |-> seed,
                          seed_leader |-> leader],
          next_order |-> order])

EmptyFn == [x \in {} |-> 0]

(* ----------------------------- ConsensusEngine ------------------------- *)

\* lastOp is the call that was handled last, when it is one of the
\* operations in watch (which never changes): its name, whether it returned
\* success and, for a call that did, the calling node id.  A call of any
\* other operation leaves Unwatched.
\* arg is the node id the call names besides its caller (the accused of a
\* report), val the amount it passes (freeze_tokens), the number it
\* returns (register_node) or the accusations the accused had when the call
\* came (report_leader).
Unwatched == [op |-> "", id |-> "", ok |-> TRUE, arg |-> "", val |-> 0]

Returned(op, id, arg, val) ==
    IF op \in watch
    THEN [op |-> op, id |-> id, ok |-> TRUE, arg |-> arg, val |-> val]
    ELSE Unwatched

Accepted(op, id) == Returned(op, id, "", 0)

Rejected(op) ==
    IF op \in watch
    THEN [op |-> op, id |-> "", ok |-> FALSE, arg |-> "", val |-> 0]
    ELSE Unwatched

\* the record of a call by id that returned False: with its caller while the
\* rejected calls are under observation
RejectedCall(op, id) ==
    IF Focused("rejected")
    THEN [op |-> op, id |-> id, ok |-> FALSE, arg |-> "", val |-> 0]
    ELSE Rejected(op)

Operations ==
    {"register_node", "freeze_tokens", "set_seed", "record_vote",
     "propose_block", "submit_block", "report_leader", "tally_votes",
     "restart"}

\* a node joins once those before it in JoinOrder have
CanJoin(reg, nodeId) ==
    \A i \in DOMAIN JoinOrder :
        JoinOrder[i] = nodeId =>
            \A j \in 1..(i - 1) : Registered(reg, JoinOrder[j])

Voted(vs, nodeId) == \E i \in DOMAIN vs : vs[i].nodeId = nodeId

\* a node casts its first vote of a turn once those before it in JoinOrder
\* have cast theirs; it may vote again at any time
CanVote(vs, nodeId) ==
    \/ Voted(vs, nodeId)
    \/ \A i \in DOMAIN JoinOrder :
            JoinOrder[i] = nodeId =>
                \A j \in 1..(i - 1) : Voted(vs, JoinOrder[j])

\* those that have accused leaderId
Accusers(acc, leaderId) ==
    IF leaderId \in DOMAIN acc THEN Range(acc[leaderId]) ELSE {}

\* a reporter accuses a node for the first time once the reporters before
\* it in JoinOrder have; it may repeat its accusation at any time
CanReport(acc, leaderId, reporterId) ==
    \/ reporterId \in Accusers(acc, leaderId)
    \/ \A i \in DOMAIN JoinOrder :
            JoinOrder[i] = reporterId =>
                \A j \in 1..(i - 1) :
                    JoinOrder[j] \in Reporters =>
                        JoinOrder[j] \in Accusers(acc, leaderId)

\* the register_node calls: a node joins with its address and key once those
\* before it in JoinOrder have; an id that is registered is registered again
\* with the same or another address and key.  The request carries a
\* signature, which verifies or (while the rejected calls are under
\* observation) does not
RegisterCalls(reg) ==
    UNION {{<<n, ip, k, ok>> :
                ip \in IF Registered(reg, n) /\ Focused("register_node")
                       THEN RegIps(n) \cup {OtherIp} ELSE JoinIps(n),
                k \in IF Registered(reg, n) /\ Focused("register_node")
                      THEN Keys \cup {OtherKey} ELSE Keys,
                ok \in IF Focused("rejected") THEN BOOLEAN ELSE {TRUE}} :
            n \in {m \in NodeIds : CanJoin(reg, m)}}

\* the token of the calls that set_seed rejects before it reads the token
AnyToken == <<<<0, 0, 0, 0>>, <<0, 0>>>>

\* the set_seed calls: every caller and turn; every token for the caller
\* that leads the turn in registry reg and signs well, one token for the
\* calls that are rejected whatever the token is
SeedCalls(reg) ==
    UNION {{<<n, in[1], in[2], t, TRUE>> :
                in \in IF get_leader_for_turn(reg, t) = Some(n)
                       THEN SeedInputs ELSE {AnyToken}} :
            n \in NodeIds, t \in TurnArgs}
    \cup {<<n, AnyToken[1], AnyToken[2], 0, FALSE>> : n \in NodeIds}

\* the freeze_tokens calls: every amount with a signature that verifies, one
\* amount with a signature that does not
FreezeCalls ==
    UNION {{<<n, t, TRUE>> : t \in FreezeAmounts(n)} : n \in Stakers}
    \cup {<<n, 1, FALSE>> : n \in Stakers}

\* the engine after construction with no state file, watching the calls of w
InitWatching(w) ==
    /\ watch = w
    /\ nodes = <<>>
    /\ next_order = 0
    /\ frozen_tokens = EmptyFn
    /\ current_turn = 0
    /\ current_seed = None
    /\ seed_leader = None
    /\ votes = <<>>
    /\ accusations = EmptyFn
    /\ disk = None
    /\ lastOp = Unwatched

Init == InitWatching({})

\* POST /network/register with ConsensusEngine.register_node; verified is
\* what crypto.verify would return for the signature of the request: the
\* endpoint decodes the signature and passes the engine the id, the address
\* and the key only
register_node(nodeId, ip, publicKey, verified) ==
    LET reg == registry_register_node(nodes, next_order, nodeId, ip, publicKey)
        order == IF Registered(nodes, nodeId) THEN next_order ELSE next_order + 1
    IN  /\ nodes' = reg
        /\ next_order' = order
        /\ disk' = save_state(reg, frozen_tokens, current_turn, current_seed,
                              seed_leader, order)
        /\ lastOp' = Returned("register_node", nodeId, "",
                               NodeOf(reg, nodeId).assignedOrder)
        /\ UNCHANGED <<frozen_tokens, current_turn, current_seed, seed_leader,
                       votes, accusations>>

\* freeze_tokens without the check that the caller is registered
freeze_tokens_of_anyone(nodeId, tokens, verified) ==
    IF verified
    THEN /\ frozen_tokens' = ledger_freeze_tokens(frozen_tokens, nodeId, tokens)
         /\ disk' = save_state(nodes, frozen_tokens', current_turn,
                               current_seed, seed_leader, next_order)
         /\ lastOp' = Returned("freeze_tokens", nodeId, "", tokens)
         /\ UNCHANGED <<nodes, next_order, current_turn, current_seed,
                        seed_leader, votes, accusations>>
    ELSE /\ lastOp' = RejectedCall("freeze_tokens", nodeId)
         /\ UNCHANGED <<nodes, next_order, frozen_tokens, current_turn,
                        current_seed, seed_leader, votes, accusations, disk>>

\* ConsensusEngine.freeze_tokens; verified is the result of crypto.verify
freeze_tokens(nodeId, tokens, verified) ==
    IF Registered(nodes, nodeId) /\ verified
    THEN /\ frozen_tokens' = ledger_freeze_tokens(frozen_tokens, nodeId, tokens)
         /\ disk' = save_state(nodes, frozen_tokens', current_turn,
                               current_seed, seed_leader, next_order)
         /\ lastOp' = Returned("freeze_tokens", nodeId, "", tokens)
         /\ UNCHANGED <<nodes, next_order, current_turn, current_seed,
                        seed_leader, votes, accusations>>
    ELSE /\ lastOp' = RejectedCall("freeze_tokens", nodeId)
         /\ UNCHANGED <<nodes, next_order, frozen_tokens, current_turn,
                        current_seed, seed_leader, votes, accusations, disk>>

\* ConsensusEngine.is_turn_leader
is_turn_leader(reg, nodeId, turn) == get_leader_for_turn(reg, turn) = Some(nodeId)

\* set_seed without the check of the turn's leader
set_seed_accepts_any_node(reg, leaderId, turn, verified) ==
    /\ Registered(reg, leaderId)
    /\ verified

\* the checks of set_seed before it updates the state
set_seed_accepts(reg, leaderId, turn, verified) ==
    /\ is_turn_leader(reg, leaderId, turn)
    /\ Registered(reg, leaderId)
    /\ verified

\* the votes after set_seed: it leaves the vote store alone
set_seed_votes(vs) == vs

\* ConsensusEngine.set_seed
set_seed(leaderId, token, h, turn, verified) ==
    IF set_seed_accepts(nodes, leaderId, turn, verified)
    THEN /\ current_turn' = turn
         /\ current_seed' = Some(generate_seed(turn, token, h))
         /\ seed_leader' = Some(leaderId)
         /\ votes' = set_seed_votes(votes)
         /\ disk' = save_state(nodes, frozen_tokens, current_turn',
                               current_seed', seed_leader', next_order)
         /\ lastOp' = Accepted("set_seed", leaderId)
         /\ UNCHANGED <<nodes, next_order, frozen_tokens, accusations>>
    ELSE /\ lastOp' = RejectedCall("set_seed", leaderId)
         /\ UNCHANGED <<nodes, next_order, frozen_tokens, current_turn,
                        current_seed, seed_leader, votes, accusations, disk>>

\* record_vote without the check that a seed is there
record_vote_accepts_without_seed(reg, ft, seed, nodeId, verified) ==
    /\ Registered(reg, nodeId)
    /\ verified

\* the checks of record_vote before it computes and stores the vote
record_vote_accepts(reg, ft, seed, nodeId, verified) ==
    /\ Registered(reg, nodeId)
    /\ verified
    /\ seed # None

\* a generator that is not seeded with the seed alone: any low half
RandomSeeds_unseeded(seed) ==
    IF seed = None THEN {[hi |-> 0, lo |-> v] : v \in 0..MaxRand}
    ELSE {[hi |-> seed[1].hi, lo |-> v] : v \in 0..MaxRand}

\* what random.Random(seed) is seeded with: the seed, or for None a value
\* from the operating system's entropy
RandomSeeds(seed) ==
    IF seed = None THEN {[hi |-> 0, lo |-> v] : v \in 0..MaxRand}
    ELSE {seed[1]}

\* ConsensusEngine.record_vote
record_vote(nodeId, encrypted_vote, verified) ==
    IF record_vote_accepts(nodes, frozen_tokens, current_seed, nodeId, verified)
    THEN /\ \E s \in RandomSeeds(current_seed) :
                votes' = store_record_vote(votes, nodeId, encrypted_vote,
                            calculate_weighted_vote(nodes, frozen_tokens, s))
         /\ lastOp' = Accepted("record_vote", nodeId)
         /\ UNCHANGED <<nodes, next_order, frozen_tokens, current_turn,
                        current_seed, seed_leader, accusations, disk>>
    ELSE /\ lastOp' = RejectedCall("record_vote", nodeId)
         /\ UNCHANGED <<nodes, next_order, frozen_tokens, current_turn,
                        current_seed, seed_leader, votes, accusations, disk>>

\* propose_block that empties the vote store
propose_block_clearing_votes(proposerId, verified) ==
    /\ lastOp' = IF Registered(nodes, proposerId) /\ verified
                 THEN Accepted("propose_block", proposerId)
                 ELSE RejectedCall("propose_block", proposerId)
    /\ votes' = <<>>
    /\ UNCHANGED <<nodes, next_order, frozen_tokens, current_turn,
                   current_seed, seed_leader, accusations, disk>>

\* ConsensusEngine.propose_block
propose_block(proposerId, verified) ==
    /\ lastOp' = IF Registered(nodes, proposerId) /\ verified
                 THEN Accepted("propose_block", proposerId)
                 ELSE RejectedCall("propose_block", proposerId)
    /\ UNCHANGED <<nodes, next_order, frozen_tokens, current_turn,
                   current_seed, seed_leader, votes, accusations, disk>>

\* the turn counter without the rollover
next_turn_unbounded(turn) == turn + 1

\* TurnState.next_turn: (self.current_turn + 1) % 65536
next_turn(turn) == (turn + 1) % 65536

\* submit_block without the comparison of the winner with the caller
submit_block_accepts_any_caller(reg, vs, leaderId, verified) ==
    /\ Registered(reg, leaderId)
    /\ verified
    /\ tally_votes(reg, vs).threshold_reached

\* the checks of submit_block before it advances the turn
submit_block_accepts(reg, vs, leaderId, verified) ==
    LET result == tally_votes(reg, vs)
    IN  /\ Registered(reg, leaderId)
        /\ verified
        /\ ~(~result.threshold_reached \/ result.winner # Some(leaderId))

\* the turns from which the model follows an advance: those below MaxTurn
\* (one more while the turn numbers are under observation) and WrapTurn
MayAdvance(turn) ==
    \/ turn < (IF Focused("turn") THEN MaxTurn + 1 ELSE MaxTurn)
    \/ turn = WrapTurn

\* submit_block that empties the vote store before its checks
submit_block_clearing_first(leaderId, verified) ==
    IF submit_block_accepts(nodes, votes, leaderId, verified)
    THEN /\ MayAdvance(current_turn)
         /\ current_turn' = next_turn(current_turn)
         /\ current_seed' = None
         /\ seed_leader' = None
         /\ votes' = <<>>
         /\ disk' = save_state(nodes, frozen_tokens, current_turn',
                               current_seed', seed_leader', next_order)
         /\ lastOp' = Accepted("submit_block", leaderId)
         /\ UNCHANGED <<nodes, next_order, frozen_tokens, accusations>>
    ELSE /\ lastOp' = RejectedCall("submit_block", leaderId)
         /\ votes' = <<>>
         /\ UNCHANGED <<nodes, next_order, frozen_tokens, current_turn,
                        current_seed, seed_leader, accusations, disk>>

\* submit_block whose tally is taken on the votes stored before some later
\* votes arrived, and whose advance clears them all
submit_block_tallying_early(leaderId, verified) ==
    IF \E k \in 0..Len(votes) :
            submit_block_accepts(nodes, SubSeq(votes, 1, k), leaderId, verified)
    THEN /\ MayAdvance(current_turn)
         /\ current_turn' = next_turn(current_turn)
         /\ current_seed' = None
         /\ seed_leader' = None
         /\ votes' = <<>>
         /\ disk' = save_state(nodes, frozen_tokens, current_turn',
                               current_seed', seed_leader', next_order)
         /\ lastOp' = Accepted("submit_block", leaderId)
         /\ UNCHANGED <<nodes, next_order, frozen_tokens, accusations>>
    ELSE /\ lastOp' = RejectedCall("submit_block", leaderId)
         /\ UNCHANGED <<nodes, next_order, frozen_tokens, current_turn,
                        current_seed, seed_leader, votes, accusations, disk>>

\* submit_block whose advance leaves the votes of the turn in the store
submit_block_keeping_votes(leaderId, verified) ==
    IF submit_block_accepts(nodes, votes, leaderId, verified)
    THEN /\ MayAdvance(current_turn)
         /\ current_turn' = next_turn(current_turn)
         /\ current_seed' = None
         /\ seed_leader' = None
         /\ votes' = votes
         /\ disk' = save_state(nodes, frozen_tokens, current_turn',
                               current_seed', seed_leader', next_order)
         /\ lastOp' = Accepted("submit_block", leaderId)
         /\ UNCHANGED <<nodes, next_order, frozen_tokens, accusations>>
    ELSE /\ lastOp' = RejectedCall("submit_block", leaderId)
         /\ UNCHANGED <<nodes, next_order, frozen_tokens, current_turn,
                        current_seed, seed_leader, votes, accusations, disk>>

\* ConsensusEngine.submit_block, with _advance_turn
submit_block(leaderId, verified) ==
    IF submit_block_accepts(nodes, votes, leaderId, verified)
    THEN /\ MayAdvance(current_turn)
         /\ current_turn' = next_turn(current_turn)
         /\ current_seed' = None
         /\ seed_leader' = None
         /\ votes' = <<>>
         /\ disk' = save_state(nodes, frozen_tokens, current_turn',
                               current_seed', seed_leader', next_order)
         /\ lastOp' = Accepted("submit_block", leaderId)
         /\ UNCHANGED <<nodes, next_order, frozen_tokens, accusations>>
    ELSE /\ lastOp' = RejectedCall("submit_block", leaderId)
         /\ UNCHANGED <<nodes, next_order, frozen_tokens, current_turn,
                        current_seed, seed_leader, votes, accusations, disk>>

\* len([n for n in self.state.registry.nodes.values() if n.active])
active_count(reg) == Len(ActiveNodes(reg))

\* ConsensusEngine.report_leader
report_leader(reporterId, leaderId, verified) ==
    IF Registered(nodes, reporterId) /\ verified
    THEN LET acc == add_accusation(accusations, leaderId, reporterId)
         IN  /\ IF get_accusation_count(acc, leaderId)
                      >= required_accusations(active_count(nodes))
                THEN /\ nodes' = ban_node(nodes, leaderId)
                     /\ accusations' = clear_accusations(acc, leaderId)
                     /\ disk' = save_state(nodes', frozen_tokens, current_turn,
                                    current_seed, seed_leader, next_order)
                ELSE /\ accusations' = acc
                     /\ UNCHANGED <<nodes, disk>>
             /\ lastOp' = Returned("report_leader", reporterId, leaderId,
                            get_accusation_count(accusations, leaderId))
             /\ UNCHANGED <<next_order, frozen_tokens, current_turn,
                            current_seed, seed_leader, votes>>
    ELSE /\ lastOp' = RejectedCall("report_leader", reporterId)
         /\ UNCHANGED <<nodes, next_order, frozen_tokens, current_turn,
                        current_seed, seed_leader, votes, accusations, disk>>

\* GET /consensus/result with ConsensusEngine.tally_votes: it reads the
\* registry and the votes and returns the result; the record holds the
\* winner ("" for None) and 1 when the threshold is reached
get_consensus_result ==
    /\ LET result == tally_votes(nodes, votes)
       IN  lastOp' = Returned("tally_votes",
                        IF result.winner = None THEN "" ELSE result.winner[1],
                        "", IF result.threshold_reached THEN 1 ELSE 0)
    /\ UNCHANGED <<nodes, next_order, frozen_tokens, current_turn,
                   current_seed, seed_leader, votes, accusations, disk>>

\* a new process: ConsensusState.__init__ with load_state; the votes and the
\* accusations are not in the file
restart ==
    /\ IF disk = None
       THEN /\ nodes' = <<>>
            /\ next_order' = 0
            /\ frozen_tokens' = EmptyFn
            /\ current_turn' = 0
            /\ current_seed' = None
            /\ seed_leader' = None
       ELSE /\ nodes' = disk[1].nodes
            /\ next_order' = disk[1].next_order
            /\ frozen_tokens' = disk[1].frozen_tokens
            /\ current_turn' = disk[1].turn_state.current_turn
            /\ current_seed' = disk[1].turn_state.current_seed
            /\ seed_leader' = disk[1].turn_state.seed_leader
    /\ votes' = <<>>
    /\ accusations' = EmptyFn
    /\ lastOp' = Accepted("restart", "")
    /\ UNCHANGED disk

\* one call of the engine, or a restart of the process; watch is fixed
Next ==
    \/ \E c \in RegisterCalls(nodes) :
            register_node(c[1], c[2], c[3], c[4]) /\ UNCHANGED watch
    \/ \E c \in FreezeCalls :
            freeze_tokens(c[1], c[2], c[3]) /\ UNCHANGED watch
    \/ \E c \in SeedCalls(nodes) :
            set_seed(c[1], c[2], c[3], c[4], c[5]) /\ UNCHANGED watch
    \/ \E n \in Voters : \E v \in VoteTokens : \E ok \in BOOLEAN :
            CanVote(votes, n) /\ record_vote(n, v, ok) /\ UNCHANGED watch
    \/ \E n \in NodeIds : \E ok \in BOOLEAN :
            propose_block(n, ok) /\ UNCHANGED watch
    \/ \E n \in NodeIds : \E ok \in BOOLEAN :
            submit_block(n, ok) /\ UNCHANGED watch
    \/ get_consensus_result /\ UNCHANGED watch
    \/ \E r \in Reporters : \E a \in Accused : \E ok \in BOOLEAN :
            CanReport(accusations, a, r) /\ report_leader(r, a, ok)
                /\ UNCHANGED watch
    \/ restart /\ UNCHANGED watch

Spec == Init /\ [][Next]_vars

\* the same engine, with the calls of one operation recorded in lastOp
SpecSeed == InitWatching({"set_seed"}) /\ [][Next]_vars

SpecVote == InitWatching({"record_vote"}) /\ [][Next]_vars

SpecSubmit == InitWatching({"submit_block"}) /\ [][Next]_vars

SpecRegistry ==
    InitWatching({"register_node", "report_leader"}) /\ [][Next]_vars

SpecFreeze == InitWatching({"freeze_tokens"}) /\ [][Next]_vars

\* the same engine, with the rejected calls of every operation recorded
SpecRejected == InitWatching({"rejected"}) /\ [][Next]_vars

\* the same engine, with the calls of the two reads recorded
SpecReadOnly ==
    InitWatching({"propose_block", "tally_votes"}) /\ [][Next]_vars

\* the same engine, with the registrations recorded and malformed addresses
\* among their arguments
SpecAddress ==
    InitWatching({"register_node", "address"}) /\ [][Next]_vars

\* the same engine, with the votes recorded and nodes voting again with
\* another token
SpecRevote == InitWatching({"record_vote", "revote"}) /\ [][Next]_vars

\* the same engine, with the turn numbers under observation: turn arguments
\* past 16 bits, one more advance, and the calls of set_seed and of
\* submit_block recorded
SpecTurn ==
    InitWatching({"set_seed", "submit_block", "turn"}) /\ [][Next]_vars

(* ----------------------------- claims ---------------------------------- *)

\* the result of tally_votes in the current state
Result == tally_votes(nodes, votes)

\* the number of stored votes whose selectedIndex denotes node c in the
\* current order of the active nodes
VotesFor(c) ==
    LET ordered == get_nodes_ordered(nodes)
    IN  Cardinality({i \in DOMAIN votes :
            /\ votes[i].selectedIndex \in 0..(Len(ordered) - 1)
            /\ ordered[votes[i].selectedIndex + 1].nodeId = c})

\* C1: a submit_block call succeeds only if, in the state it is called in,
\* tally_votes reports threshold_reached and a winner equal to the caller;
\* a rejected submit_block leaves the turn (and the seed and votes) as is.
C1_SubmitOnlyByTalliedWinner ==
    [][(lastOp'.op = "submit_block") =>
        /\ lastOp'.ok =>
            /\ Result.threshold_reached
            /\ Result.winner = Some(lastOp'.id)
        /\ ~lastOp'.ok =>
            /\ current_turn' = current_turn
            /\ current_seed' = current_seed
            /\ votes' = votes]_vars

\* a submit_block has succeeded at the turn before rollover: the turn is 0
\* again and the seed and the votes are gone
C1_Witness ==
    /\ lastOp.op = "submit_block" /\ lastOp.ok
    /\ current_turn = 0 /\ current_seed = None /\ votes = <<>>
    /\ Len(ActiveNodes(nodes)) >= 2

\* C2 (as claimed): the turn number changes only in a step that is a
\* successful submit_block.
C2_TurnChangesOnlyOnSubmit ==
    [][current_turn' # current_turn =>
        (lastOp'.op = "submit_block" /\ lastOp'.ok)]_vars

\* the node the registry designates as leader of a turn: the active node
\* that has exactly (turn mod activeCount) active nodes ranked before it
IsDesignatedLeader(reg, nodeId, turn) ==
    \E i \in DOMAIN reg :
        /\ reg[i].nodeId = nodeId
        /\ reg[i].active
        /\ Cardinality({j \in DOMAIN reg :
                reg[j].active /\ reg[j].assignedOrder < reg[i].assignedOrder})
            = turn % Cardinality({j \in DOMAIN reg : reg[j].active})

\* C3: a set_seed call succeeds only if its caller is, in the registry at
\* the time of the call, the registered active node designated as leader of
\* the turn it names (the turn a successful set_seed stores).
C3_SeedOnlyByTurnLeader ==
    [][(lastOp'.op = "set_seed" /\ lastOp'.ok) =>
        IsDesignatedLeader(nodes, lastOp'.id, current_turn')]_vars

\* a set_seed has succeeded while a second active node and an expelled node
\* were in the registry
C3_Witness ==
    /\ lastOp.op = "set_seed" /\ lastOp.ok
    /\ current_seed # None /\ seed_leader = Some(lastOp.id)
    /\ Len(ActiveNodes(nodes)) = 2 /\ Len(nodes) = 3

\* C4 (as claimed): while the turn stays the same, a seed that is stored is
\* not replaced.
C4_OneSeedPerTurn ==
    [][(current_seed # None /\ current_turn' = current_turn) =>
        current_seed' = current_seed]_vars

\* C5 (as claimed): after a successful set_seed for another turn than the
\* one the engine was in, the vote store is empty.
C5_NewTurnSeedClearsVotes ==
    [][(lastOp'.op = "set_seed" /\ lastOp'.ok
            /\ current_turn' # current_turn) =>
        votes' = <<>>]_vars

\* C6: a record_vote call made while no seed is stored is rejected and
\* leaves the vote store as it was.
C6_NoVoteWithoutSeed ==
    [][(lastOp'.op = "record_vote" /\ current_seed = None) =>
        (~lastOp'.ok /\ votes' = votes)]_vars

\* a record_vote was rejected while all three nodes were registered, the
\* registry was saved and no seed was stored
C6_Witness ==
    /\ lastOp.op = "record_vote" /\ ~lastOp.ok
    /\ current_seed = None /\ votes = <<>>
    /\ Len(nodes) = 3
    /\ disk # None /\ disk[1].turn_state.current_seed = None

\* C7 (as claimed): a record_vote call of a node whose frozen balance is 0
\* is rejected.
C7_NoVoteWithoutStake ==
    [][(lastOp'.op = "record_vote" /\ lastOp'.ok) =>
        get_tokens(frozen_tokens, lastOp'.id) # 0]_vars

\* the frozen stake of the voter of a vote
StakeOf(v) == Max0(get_tokens(frozen_tokens, v.nodeId))

\* the stake-weighted votes for candidate c, and of all votes cast
WeightFor(c) ==
    LET ordered == get_nodes_ordered(nodes)
    IN  SumSeq([i \in DOMAIN votes |->
            IF /\ votes[i].selectedIndex \in 0..(Len(ordered) - 1)
               /\ ordered[votes[i].selectedIndex + 1].nodeId = c
            THEN StakeOf(votes[i]) ELSE 0])

TotalWeight == SumSeq([i \in DOMAIN votes |-> StakeOf(votes[i])])

\* C8 (as claimed): whenever some stake has voted, the winner of tally_votes
\* is a candidate of the highest stake-weighted total, the agreement is
\* that total over the total stake of the votes cast, and the threshold is
\* reached exactly when that share is at least 2/3.
C8_TallyIsStakeWeighted ==
    TotalWeight > 0 =>
        /\ Result.winner # None
        /\ \A c \in NodeIds : WeightFor(c) <= WeightFor(Result.winner[1])
        /\ Result.agreement[1] * TotalWeight
                = WeightFor(Result.winner[1]) * Result.agreement[2]
        /\ Result.threshold_reached
                <=> (3 * WeightFor(Result.winner[1]) >= 2 * TotalWeight)

\* C9: tally_votes reports threshold_reached exactly when the votes for the
\* winner are at least 2/3 of the votes cast, 3 * winner >= 2 * total; with
\* no winner it reports FALSE.
C9_ThresholdIsTwoThirds ==
    IF Result.winner = None THEN ~Result.threshold_reached
    ELSE Result.threshold_reached
            <=> (3 * VotesFor(Result.winner[1]) >= 2 * Len(votes))

\* the boundary: three votes cast, exactly two of them for the winner
C9_Witness ==
    /\ Len(votes) = 3
    /\ Result.winner # None
    /\ VotesFor(Result.winner[1]) = 2
    /\ Result.threshold_reached

\* C10: whenever tally_votes reports threshold_reached for winner W, the
\* votes for W are strictly more than the votes for any other candidate.
C10_QuorumWinnerStrictlyAhead ==
    Result.threshold_reached =>
        /\ Result.winner # None
        /\ \A c \in NodeIds \ {Result.winner[1]} :
                VotesFor(c) < VotesFor(Result.winner[1])

\* the threshold is reached while another candidate holds a vote too
C10_Witness ==
    /\ Result.threshold_reached
    /\ \E c \in NodeIds : c # Result.winner[1] /\ VotesFor(c) > 0

\* two tally results are the same: winner, agreement (as a fraction) and
\* threshold
SameResult(a, b) ==
    /\ a.winner = b.winner
    /\ a.threshold_reached = b.threshold_reached
    /\ a.agreement[1] * b.agreement[2] = b.agreement[1] * a.agreement[2]

\* the stored votes without those of the nodes whose frozen balance is 0
StakedVotes ==
    SelectSeq(votes, LAMBDA v : get_tokens(frozen_tokens, v.nodeId) # 0)

\* C11 (as claimed): in every reachable state tally_votes gives the result
\* it would give with the votes of the zero-stake nodes removed.
C11_ZeroStakeVotesDoNotCount ==
    SameResult(tally_votes(nodes, votes), tally_votes(nodes, StakedVotes))

\* nodeId is registered in reg and active
ActiveIn(reg, nodeId) ==
    \E i \in DOMAIN reg : reg[i].nodeId = nodeId /\ reg[i].active

\* the number of active nodes of reg
ActiveCount(reg) == Cardinality({i \in DOMAIN reg : reg[i].active})

\* ceil(2 * n / 3): the least k with 3 * k >= 2 * n
TwoThirdsOf(n) == CHOOSE k \in 0..n : 3 * k >= 2 * n /\ 3 * (k - 1) < 2 * n

\* the distinct accusers of leaderId once reporterId is added
AccusersWith(acc, leaderId, reporterId) ==
    Accusers(acc, leaderId) \cup {reporterId}

\* the accepted report_leader call of this step reaches the threshold
ExpulsionFires ==
    /\ lastOp'.op = "report_leader" /\ lastOp'.ok
    /\ Cardinality(AccusersWith(accusations, lastOp'.arg, lastOp'.id))
            >= TwoThirdsOf(ActiveCount(nodes))

\* C12: an accepted report_leader call leaves the accused (a registered
\* node) active exactly when it was active and the distinct accusers, the
\* reporter included, are fewer than ceil(2 * activeCount / 3) with the
\* active nodes counted before the call; every other node keeps its status,
\* and a rejected call changes neither the registry nor the accusations.
C12_ExpulsionExactness ==
    [][(lastOp'.op = "report_leader") =>
        /\ lastOp'.ok =>
            /\ Registered(nodes, lastOp'.arg) =>
                (ActiveIn(nodes', lastOp'.arg)
                    <=> (ActiveIn(nodes, lastOp'.arg) /\ ~ExpulsionFires))
            /\ \A n \in NodeIds \ {lastOp'.arg} :
                ActiveIn(nodes', n) <=> ActiveIn(nodes, n)
        /\ ~lastOp'.ok =>
            (nodes' = nodes /\ accusations' = accusations)]_vars

\* a report has just been accepted that leaves a registered, active accused
\* one accuser short of the threshold for three active nodes
C12_Witness ==
    /\ lastOp.op = "report_leader" /\ lastOp.ok
    /\ ActiveIn(nodes, lastOp.arg)
    /\ ActiveCount(nodes) = 3
    /\ Accusers(accusations, lastOp.arg) = {lastOp.id}
    /\ Cardinality(Accusers(accusations, lastOp.arg)) + 1
            = TwoThirdsOf(ActiveCount(nodes))

\* C13 (as claimed): in every reachable state no active node has
\* ceil(2 * activeCount / 3) or more distinct accusers, with the active
\* nodes counted in that state.
C13_NoActiveNodeAtThreshold ==
    \A n \in NodeIds :
        ActiveIn(nodes, n) =>
            Cardinality(Accusers(accusations, n))
                < TwoThirdsOf(ActiveCount(nodes))

\* the accepted report_leader call of this step repeats a pair: its
\* reporter is among the accusers of its accused already
RepeatedReport ==
    /\ lastOp'.op = "report_leader" /\ lastOp'.ok
    /\ lastOp'.id \in Accusers(accusations, lastOp'.arg)

\* the accuser count of leaderId as the engine reads it
AccuserCount(acc, leaderId) ==
    IF leaderId \in DOMAIN acc THEN Len(acc[leaderId]) ELSE 0

IpGreater(x, y) ==
    \E k \in 1..4 : x[k] > y[k] /\ \A m \in 1..(k - 1) : x[m] = y[m]

\* the rank of the active node at position i of reg among the active nodes:
\* how many of them have a greater address, or the same and joined earlier
RankOf(reg, i) ==
    Cardinality({j \in DOMAIN reg :
        /\ reg[j].active
        /\ \/ IpGreater(reg[j].ip, reg[i].ip)
           \/ reg[j].ip = reg[i].ip /\ j < i})

\* every active node of reg has its rank as rotation order
RotationRanked(reg) ==
    \A i \in DOMAIN reg : reg[i].active => reg[i].assignedOrder = RankOf(reg, i)

\* reg2 holds the nodes of reg1, at the same places, with the same id,
\* address and key
SameMembers(reg1, reg2) ==
    /\ Len(reg2) = Len(reg1)
    /\ \A i \in DOMAIN reg1 :
        /\ reg2[i].nodeId = reg1[i].nodeId
        /\ reg2[i].ip = reg1[i].ip
        /\ reg2[i].publicKey = reg1[i].publicKey

\* C15: when an accepted report_leader call reaches the threshold, no node
\* leaves the registry, the accused (if registered) is inactive afterwards,
\* its accusation set is empty, the active nodes that remain have their
\* rank as rotation order, and if the accused was inactive already (or is
\* not registered) the registry is unchanged.
C15_ExpulsionEffects ==
    [][ExpulsionFires =>
        /\ SameMembers(nodes, nodes')
        /\ Registered(nodes, lastOp'.arg) => ~ActiveIn(nodes', lastOp'.arg)
        /\ Accusers(accusations', lastOp'.arg) = {}
        /\ RotationRanked(nodes')
        /\ ~ActiveIn(nodes, lastOp'.arg) => nodes' = nodes]_vars

\* an expulsion has just fired on the node that led the rotation: it is in
\* the registry, inactive, with its old order 0 and no accusers, and the two
\* active nodes that remain have the orders 0 and 1
C15_Witness ==
    /\ lastOp.op = "report_leader" /\ lastOp.ok /\ lastOp.val = 1
    /\ Registered(nodes, lastOp.arg) /\ ~ActiveIn(nodes, lastOp.arg)
    /\ NodeOf(nodes, lastOp.arg).assignedOrder = 0
    /\ Accusers(accusations, lastOp.arg) = {}
    /\ ActiveCount(nodes) = 2
    /\ {n.assignedOrder : n \in Range(ActiveNodes(nodes))} = {0, 1}

\* the rotation order stored for nodeId in reg
OrderOf(reg, nodeId) ==
    LET i == CHOOSE k \in DOMAIN reg : reg[k].nodeId = nodeId
    IN  reg[i].assignedOrder

\* C16: a register_node call for an id that is in the registry, with the
\* same or another address and key, returns the order stored for the id and
\* leaves the registry (so the active nodes and every order) and the frozen
\* balances as they were.
C16_RegistrationIdempotent ==
    [][(lastOp'.op = "register_node" /\ Registered(nodes, lastOp'.id)) =>
        /\ lastOp'.ok
        /\ lastOp'.val = OrderOf(nodes, lastOp'.id)
        /\ nodes' = nodes
        /\ next_order' = next_order
        /\ frozen_tokens' = frozen_tokens]_vars

\* the first node to join has just registered again, after the others
\* joined, it froze tokens and it was expelled: it is still inactive and
\* got back the order it had
C16_Witness ==
    /\ lastOp.op = "register_node" /\ lastOp.id = JoinOrder[1]
    /\ Len(nodes) = 3
    /\ ~ActiveIn(nodes, lastOp.id)
    /\ lastOp.val = OrderOf(nodes, lastOp.id)
    /\ get_tokens(frozen_tokens, lastOp.id) > 0

\* C17: in every reachable state the rotation orders of the n active nodes
\* are the numbers 0..n-1, each once, and of two active nodes the one with
\* the greater 32-bit address has the smaller order, and with equal
\* addresses the one that joined first has.
C17_RotationInvariant ==
    LET act == {i \in DOMAIN nodes : nodes[i].active}
    IN  /\ {nodes[i].assignedOrder : i \in act} = 0..(Cardinality(act) - 1)
        /\ \A i, j \in act :
            /\ (i # j) => nodes[i].assignedOrder # nodes[j].assignedOrder
            /\ IpGreater(nodes[i].ip, nodes[j].ip)
                => nodes[i].assignedOrder < nodes[j].assignedOrder
            /\ (nodes[i].ip = nodes[j].ip /\ i < j)
                => nodes[i].assignedOrder < nodes[j].assignedOrder

\* three nodes have joined, two of them with the same address, and the one
\* with the greatest address has been expelled: the two that remain are
\* ranked 0 and 1 in the order in which they joined
C17_Witness ==
    /\ Len(nodes) = 3
    /\ ActiveCount(nodes) = 2
    /\ \E i, j \in DOMAIN nodes :
        /\ i < j
        /\ nodes[i].active /\ nodes[j].active
        /\ nodes[i].ip = nodes[j].ip
        /\ nodes[i].assignedOrder = 0 /\ nodes[j].assignedOrder = 1
    /\ \E k \in DOMAIN nodes : ~nodes[k].active /\ nodes[k].assignedOrder = 0

\* the turns the leader is asked for
LeaderTurns == (0..(MaxTurn + 3)) \cup {WrapTurn}

\* C18: in every reachable state, for every turn, get_leader_for_turn gives
\* none when no node is active, and otherwise the active node that has
\* (turn mod activeCount) active nodes before it in rotation order: never an
\* inactive node, and with one active node that node for every turn.
C18_LeaderForTurn ==
    \A t \in LeaderTurns :
        LET leader == get_leader_for_turn(nodes, t)
        IN  /\ (ActiveCount(nodes) = 0) <=> (leader = None)
            /\ leader # None =>
                /\ ActiveIn(nodes, leader[1])
                /\ IsDesignatedLeader(nodes, leader[1], t)
            /\ ActiveCount(nodes) = 1 =>
                \A n \in NodeIds : ActiveIn(nodes, n) => leader = Some(n)

\* two active nodes and an expelled one that kept the order 1: turn 3 is
\* led by the active node of order 1, turn 0 and the last turn before
\* rollover by the others in turn
C18_Witness ==
    /\ Len(nodes) = 3 /\ ActiveCount(nodes) = 2
    /\ \E k \in DOMAIN nodes : ~nodes[k].active /\ nodes[k].assignedOrder = 1
    /\ \E i, j \in DOMAIN nodes :
        /\ nodes[i].active /\ nodes[i].assignedOrder = 0
        /\ nodes[j].active /\ nodes[j].assignedOrder = 1
        /\ get_leader_for_turn(nodes, 0) = Some(nodes[i].nodeId)
        /\ get_leader_for_turn(nodes, 3) = Some(nodes[j].nodeId)
        /\ get_leader_for_turn(nodes, WrapTurn) = Some(nodes[j].nodeId)

\* C19 (as claimed): an accepted freeze_tokens call leaves the caller's
\* balance at its previous balance plus the amount, and no step lowers the
\* frozen balance of any node.
C19_FreezeAddsToBalance ==
    [][/\ (lastOp'.op = "freeze_tokens" /\ lastOp'.ok) =>
            get_tokens(frozen_tokens', lastOp'.id)
                = get_tokens(frozen_tokens, lastOp'.id) + lastOp'.val
       /\ \A n \in NodeIds :
            get_tokens(frozen_tokens', n) >= get_tokens(frozen_tokens, n)]_vars

\* C20 (as claimed): no freeze_tokens call with a negative amount is
\* accepted, and every entry of the frozen-stake table is >= 0 after every
\* step.
C20_FrozenStakeNeverNegative ==
    [][/\ (lastOp'.op = "freeze_tokens" /\ lastOp'.ok) => lastOp'.val >= 0
       /\ \A n \in DOMAIN frozen_tokens' : frozen_tokens'[n] >= 0]_vars

\* the engine's state: the registry, the stake table, the turn, the votes,
\* the accusations, and the state file
EngineState ==
    <<nodes, next_order, frozen_tokens, current_turn, current_seed,
      seed_leader, votes, accusations, disk>>

\* the step is a call of op by id that returns False and leaves the engine's
\* state as it was
RejectedUnchanged(op, id) ==
    /\ lastOp' = [op |-> op, id |-> id, ok |-> FALSE, arg |-> "", val |-> 0]
    /\ UNCHANGED EngineState

\* C21: a call of freeze_tokens, set_seed, record_vote, propose_block,
\* submit_block or report_leader whose caller is not a registered node
\* returns False and leaves the whole engine state unchanged; in particular
\* freeze_tokens makes no stake entry for a node that is not registered
C21_UnregisteredCallerRejected ==
    [][\A n \in NodeIds :
          ~Registered(nodes, n) =>
            /\ \A c \in FreezeCalls :
                  (c[1] = n /\ freeze_tokens(c[1], c[2], c[3]))
                      => (RejectedUnchanged("freeze_tokens", n)
                          /\ n \notin DOMAIN frozen_tokens')
            /\ \A c \in SeedCalls(nodes) :
                  (c[1] = n /\ set_seed(c[1], c[2], c[3], c[4], c[5]))
                      => RejectedUnchanged("set_seed", n)
            /\ \A v \in VoteTokens : \A ok \in BOOLEAN :
                  record_vote(n, v, ok) => RejectedUnchanged("record_vote", n)
            /\ \A ok \in BOOLEAN :
                  propose_block(n, ok) => RejectedUnchanged("propose_block", n)
            /\ \A ok \in BOOLEAN :
                  submit_block(n, ok) => RejectedUnchanged("submit_block", n)
            /\ \A a \in Accused : \A ok \in BOOLEAN :
                  report_leader(n, a, ok)
                      => RejectedUnchanged("report_leader", n)]_vars

\* a node that is not registered has called freeze_tokens with a signature
\* that verifies, in a turn with stake, a seed and votes: it was rejected and
\* has no stake entry
C21_Witness ==
    /\ lastOp.op = "freeze_tokens"
    /\ ~lastOp.ok
    /\ lastOp.id = "n3"
    /\ ~Registered(nodes, "n3")
    /\ "n3" \notin DOMAIN frozen_tokens
    /\ DOMAIN frozen_tokens # {}
    /\ current_seed # None
    /\ votes # <<>>

\* C22: a report whose accused is not a registered node is rejected: no
\* report_leader call that names such an accused returns True, and the
\* accusations hold no entry for an id that is not registered
C22_UnregisteredAccusedRejected ==
    [][/\ (lastOp'.op = "report_leader" /\ lastOp'.ok)
              => Registered(nodes, lastOp'.arg)
       /\ \A a \in DOMAIN accusations' : Registered(nodes', a)]_vars

\* the turn after turn, for a turn of 16 bits
TurnAfter(turn) == IF turn = 65535 THEN 0 ELSE turn + 1

\* the step is a submit_block call that returned True
BlockSubmitted == lastOp'.op = "submit_block" /\ lastOp'.ok

\* C23: a successful submit_block advances the turn to (turn + 1) mod 65536
\* (65535 is followed by 0, never by 65536), leaves no seed and no seed
\* leader, empties the vote store, and leaves the registry, the stake table
\* and the accusations as they were
C23_AdvanceTurn ==
    [][BlockSubmitted =>
          /\ current_turn' = TurnAfter(current_turn)
          /\ current_turn' \in 0..65535
          /\ current_seed' = None
          /\ seed_leader' = None
          /\ votes' = <<>>
          /\ UNCHANGED <<nodes, next_order, frozen_tokens, accusations>>]_vars

\* a block was submitted in turn 65535 with stake frozen and an accusation
\* pending: the turn is 0 and the state file holds it
C23_Witness ==
    /\ lastOp.op = "submit_block"
    /\ lastOp.ok
    /\ current_turn = 0
    /\ disk # None
    /\ disk[1].turn_state.current_turn = 0
    /\ DOMAIN frozen_tokens # {}
    /\ DOMAIN accusations # {}

\* a block was submitted in turn 0: the turn is 1
C23_PlainAdvance ==
    /\ lastOp.op = "submit_block"
    /\ lastOp.ok
    /\ current_turn = 1

\* C24: in every reachable state the current turn is an integer of
\* [0, 65535], whatever turn arguments set_seed was called with and however
\* many turns have advanced
C24_TurnInRange == current_turn \in 0..65535

\* the leader's randomness masked to 16 bits: the two low bytes of the
\* little-endian value of the token, or of the hash h for a short token
RandomPart(token, h) ==
    IF Len(token) >= 4 THEN (token[1] + 256 * token[2]) % 65536
    ELSE h[2] % 65536

\* the step is a set_seed call that returned True
SeedPublished == lastOp'.op = "set_seed" /\ lastOp'.ok

\* C25: a stored seed is a 32-bit value whose upper 16 bits are the current
\* turn masked to 16 bits and whose lower 16 bits are the randomness of the
\* leader masked to 16 bits:
\* seed = ((turn & 0xFFFF) << 16) | (randomness & 0xFFFF)
C25_SeedFormat ==
    [][/\ current_seed' # None =>
              /\ current_seed'[1].hi \in 0..65535
              /\ current_seed'[1].lo \in 0..65535
              /\ current_seed'[1].hi = current_turn' % 65536
       /\ SeedPublished =>
              \A c \in SeedCalls(nodes) :
                  (/\ c[1] = lastOp'.id
                   /\ c[4] = current_turn'
                   /\ set_seed(c[1], c[2], c[3], c[4], c[5]))
                      => current_seed' = Some([hi |-> c[4] % 65536,
                                               lo |-> RandomPart(c[2], c[3])])]_vars

\* the leader published the randomness 1 for the turn argument 65536: the
\* seed's upper half is 0 and its lower half 1
C25_Witness ==
    /\ lastOp.op = "set_seed"
    /\ lastOp.ok
    /\ current_turn = OverTurn
    /\ seed_leader # None
    /\ current_seed = Some([hi |-> 0, lo |-> 1])

\* the same in turn 65535: the seed is 0xFFFF0001
C25_LastTurn ==
    /\ current_turn = WrapTurn
    /\ current_seed = Some([hi |-> 65535, lo |-> 1])

\* C26: every mutating operation checks the signature of its caller before
\* it changes the state: a call of register_node, freeze_tokens, set_seed,
\* record_vote, submit_block or report_leader whose signature does not
\* verify is rejected and leaves the engine's state unchanged
C26_SignatureChecked ==
    [][/\ \A c \in RegisterCalls(nodes) :
              (~c[4] /\ register_node(c[1], c[2], c[3], c[4]))
                  => UNCHANGED EngineState
       /\ \A c \in FreezeCalls :
              (~c[3] /\ freeze_tokens(c[1], c[2], c[3]))
                  => RejectedUnchanged("freeze_tokens", c[1])
       /\ \A c \in SeedCalls(nodes) :
              (~c[5] /\ set_seed(c[1], c[2], c[3], c[4], c[5]))
                  => RejectedUnchanged("set_seed", c[1])
       /\ \A n \in NodeIds :
              /\ \A v \in VoteTokens :
                    record_vote(n, v, FALSE)
                        => RejectedUnchanged("record_vote", n)
              /\ submit_block(n, FALSE) => RejectedUnchanged("submit_block", n)
              /\ \A a \in Accused :
                    report_leader(n, a, FALSE)
                        => RejectedUnchanged("report_leader", n)]_vars

\* the step is a call that returned False
CallRejected == lastOp'.op # "" /\ ~lastOp'.ok

\* C27: no operation is applied in part: a call of an engine operation that
\* returns False leaves the registry, the stake table, the turn, the seed,
\* the seed leader, the votes and the accusations exactly as they were
C27_RejectedCallsChangeNothing ==
    [][CallRejected =>
          UNCHANGED <<nodes, next_order, frozen_tokens, current_turn,
                      current_seed, seed_leader, votes, accusations>>]_vars

\* a registered node that did not win the vote has called submit_block after
\* the threshold was reached, with stake frozen: it was rejected
C27_Witness ==
    /\ lastOp.op = "submit_block"
    /\ ~lastOp.ok
    /\ Registered(nodes, lastOp.id)
    /\ Result.threshold_reached
    /\ Result.winner # Some(lastOp.id)
    /\ DOMAIN frozen_tokens # {}
    /\ current_seed # None

\* the step is a call of one of the two reads, accepted or rejected
ReadCalled == lastOp'.op \in {"tally_votes", "propose_block"}

\* C28: tally_votes and propose_block only read: a call of either, accepted
\* or rejected, leaves the registry, the stake table, the turn, the seed, the
\* seed leader, the votes, the accusations and the state file unchanged
C28_ReadsChangeNothing ==
    [][ReadCalled => UNCHANGED EngineState]_vars

\* a registered node proposed a block, and was accepted, in a turn with a
\* seed, stake, votes and a pending accusation
C28_Witness ==
    /\ lastOp.op = "propose_block"
    /\ lastOp.ok
    /\ current_seed # None
    /\ votes # <<>>
    /\ DOMAIN frozen_tokens # {}
    /\ DOMAIN accusations # {}

\* tally_votes returned a winner with the threshold reached
C28_Tallied ==
    /\ lastOp.op = "tally_votes"
    /\ lastOp.id # ""
    /\ lastOp.val = 1
    /\ votes # <<>>

\* propose_block rejected a call while votes were stored
C28_ProposalRejected ==
    /\ lastOp.op = "propose_block"
    /\ ~lastOp.ok
    /\ votes # <<>>

\* the state file holds what save_state writes in the current state
Saved ==
    disk = save_state(nodes, frozen_tokens, current_turn, current_seed,
                      seed_leader, next_order)

\* C29: persistence round-trips exactly: loading the saved state into a new
\* instance restores the nodes, the frozen stake, the turn, the seed, the
\* seed leader, the votes and the accusations, so that a restart in the
\* middle of a turn loses no vote and no accusation
C29_SaveLoadRoundTrip ==
    [][(Saved /\ restart) =>
          UNCHANGED <<nodes, next_order, frozen_tokens, current_turn,
                      current_seed, seed_leader, votes, accusations>>]_vars

\* the index stored for the vote of nodeId
IndexOf(vs, nodeId) ==
    (CHOOSE v \in Range(vs) : v.nodeId = nodeId).selectedIndex

\* the step is a record_vote call that returned True
VoteRecorded == lastOp'.op = "record_vote" /\ lastOp'.ok

StakedNodes ==
    {n \in NodeIds : Registered(nodes, n) /\ get_tokens(frozen_tokens, n) > 0}

\* the index record_vote computes in the current registry, stake and seed
CurrentIndex ==
    calculate_weighted_vote(nodes, frozen_tokens, current_seed[1])

\* a seed is published, every staked node has voted, and every stored vote
\* carries the index of the current registry, stake and seed (as the votes
\* cast while none of the three changed do)
FlowComplete ==
    /\ current_seed # None
    /\ votes # <<>>
    /\ ActiveNodes(nodes) # <<>>
    /\ StakedNodes # {}
    /\ \A n \in StakedNodes : Voted(votes, n)
    /\ \A i \in DOMAIN votes : votes[i].selectedIndex = CurrentIndex

\* C31: after the nodes registered and froze stake and the leader published
\* the seed, with the registry, the stakes and the seed unchanged while the
\* votes were cast, once every staked node has voted the result names one
\* winner (the node at the computed index) with agreement 1.0 and the
\* threshold reached, and the submit_block of that winner is accepted
C31_FullFlowAgreement ==
    FlowComplete =>
        LET winner == get_nodes_ordered(nodes)[CurrentIndex + 1].nodeId
        IN  /\ Result.winner = Some(winner)
            /\ Result.agreement = <<Len(votes), Len(votes)>>
            /\ Result.threshold_reached
            /\ submit_block_accepts(nodes, votes, winner, TRUE)

\* three nodes are registered, two hold stake, all three have voted for the
\* same index under the seed of the turn, and that index is not 0
C31_Witness ==
    /\ FlowComplete
    /\ Len(nodes) = 3
    /\ Cardinality(StakedNodes) = 2
    /\ Len(votes) = 3
    /\ CurrentIndex > 0

\* the winner of such a turn has submitted its block
C31_Submitted ==
    /\ lastOp.op = "submit_block"
    /\ lastOp.ok
    /\ Cardinality(StakedNodes) = 2
    /\ get_tokens(frozen_tokens, lastOp.id) > 0

\* the step empties a vote store that held votes, in the running process
VotesCleared == votes # <<>> /\ votes' = <<>> /\ ~restart

\* the step stores the first vote of node n
FirstVoteOf(n) == ~Voted(votes, n) /\ Voted(votes', n)

C33_MalformedAddressRejected ==
    [][/\ \A c \in RegisterCalls(nodes) :
              (~WellFormed(c[2]) /\ register_node(c[1], c[2], c[3], c[4]))
                  => UNCHANGED <<nodes, next_order>>
       /\ \A i \in DOMAIN nodes' : WellFormed(nodes'[i].ip)]_vars

\* the stored votes of node n
VotesOf(vs, n) == {i \in DOMAIN vs : vs[i].nodeId = n}

\* C34: each node has at most one vote in the store; a record_vote of a node
\* that has voted in the turn replaces its vote, token and selectedIndex,
\* leaves the votes of the others, and the number of stored votes does not
\* grow
C34_OneVotePerNode ==
    [][/\ \A n \in NodeIds : Cardinality(VotesOf(votes', n)) <= 1
       /\ (VoteRecorded /\ Voted(votes, lastOp'.id)) =>
              /\ Len(votes') = Len(votes)
              /\ \A i \in DOMAIN votes :
                    votes[i].nodeId # lastOp'.id => votes'[i] = votes[i]
              /\ \A v \in VoteTokens :
                    record_vote(lastOp'.id, v, TRUE) =>
                        \A i \in VotesOf(votes', lastOp'.id) :
                            votes'[i] = Vote(lastOp'.id, v, CurrentIndex)]_vars

\* the first of two voters has voted again, with the other token, after the
\* second: its one vote carries the new token and an index that differs
\* from the index of the vote of the second
C34_Witness ==
    /\ lastOp.op = "record_vote"
    /\ lastOp.ok
    /\ Len(votes) = 2
    /\ votes[1].nodeId = lastOp.id
    /\ votes[1].encryptedVote = "v2"
    /\ votes[2].encryptedVote = "v1"
    /\ votes[1].selectedIndex # votes[2].selectedIndex

\* the stakes of the active nodes in their order, negative amounts as 0
OrderedStakes ==
    LET ordered == get_nodes_ordered(nodes)
    IN  [i \in DOMAIN ordered |->
            IF get_tokens(frozen_tokens, ordered[i].nodeId) > 0
            THEN get_tokens(frozen_tokens, ordered[i].nodeId) ELSE 0]

\* the weights of the selection: the stakes, or 1 per node when no stake is
\* positive
SelectionWeights ==
    IF \E i \in DOMAIN OrderedStakes : OrderedStakes[i] > 0
    THEN OrderedStakes
    ELSE [i \in DOMAIN OrderedStakes |-> 1]

\* the sum of the first k weights
PrefixSum(w, k) == SumSeq([j \in 1..k |-> w[j]])

\* C35: for the weights of n >= 1 active nodes and every draw d of
\* [0, totalWeight), the selection returns the first index i whose cumulative
\* weight exceeds d, so 0 <= i < n, and node i has positive stake when some
\* stake is positive; when no stake is positive the weights are 1 per node
\* and i = d
C35_WeightedSelection ==
    LET w == SelectionWeights
        n == Len(w)
    IN  n >= 1 =>
            \A d \in 0..(PrefixSum(w, n) - 1) :
                LET i == roulette(vote_weights(nodes, frozen_tokens), d)
                IN  /\ 0 <= i /\ i < n
                    /\ PrefixSum(w, i + 1) > d
                    /\ \A j \in 0..(i - 1) : PrefixSum(w, j + 1) <= d
                    /\ (w = OrderedStakes) => OrderedStakes[i + 1] > 0
                    /\ (w # OrderedStakes) => i = d

\* three active nodes, the first in the order with stake 1, the second with
\* none and the third with stake 2
C35_Witness ==
    /\ Len(ActiveNodes(nodes)) = 3
    /\ OrderedStakes = <<1, 0, 2>>

\* three active nodes, none with a positive stake, one with a negative
\* amount frozen
C35_NoStake ==
    /\ Len(ActiveNodes(nodes)) = 3
    /\ OrderedStakes = <<0, 0, 0>>
    /\ \E n \in DOMAIN frozen_tokens : frozen_tokens[n] < 0

\* the node at order[selectedIndex mod len(order)] for vote v
WrappedNode(ordered, v) ==
    ordered[(v.selectedIndex % Len(ordered)) + 1].nodeId

\* the number of stored votes whose wrapped index denotes candidate c
WrappedCount(ordered, vs, c) ==
    Cardinality({i \in DOMAIN vs : WrappedNode(ordered, vs[i]) = c})

\* C36: at the tally every recorded vote is counted for the node at
\* order[selectedIndex mod len(order)] of the current active order, also
\* when the order has shrunk since the vote was recorded; with no recorded
\* vote the tally returns (none, 0.0, false)
C36_EveryVoteCounted ==
    LET ordered == get_nodes_ordered(nodes)
        vc      == vote_counts(ordered, votes)
    IN  /\ votes = <<>> => Result = NoResult
        /\ (votes # <<>> /\ ordered # <<>>) =>
              /\ Result.winner # None
              /\ \A i \in DOMAIN ordered :
                    WrappedCount(ordered, votes, ordered[i].nodeId) =
                        IF ordered[i].nodeId \in DOMAIN vc
                        THEN vc[ordered[i].nodeId] ELSE 0

\* C37: in every reachable state the vote store is empty when no seed is
\* published, and the seed-leader is set exactly when the seed is set
C37_SeedVotesLeader ==
    /\ current_seed = None => votes = <<>>
    /\ seed_leader # None <=> current_seed # None

\* the block of one of two active nodes was accepted: the advance left no
\* seed, no seed-leader and no vote
C37_Witness ==
    /\ lastOp.op = "submit_block"
    /\ lastOp.ok
    /\ Len(ActiveNodes(nodes)) = 2
    /\ current_seed = None
    /\ seed_leader = None
    /\ votes = <<>>

\* a seed is published, its leader recorded, and two votes are stored
C37_Seeded ==
    /\ current_seed # None
    /\ seed_leader # None
    /\ Len(votes) = 2

\* C38: the node a stored vote selects is stable within a turn: while the
\* vote stays in the store, the node at its selectedIndex in the active
\* order after a step is the node it denoted before the step, also when the
\* step registers or expels a node
C38_SelectionStable ==
    [][LET before == get_nodes_ordered(nodes)
           after  == get_nodes_ordered(nodes')
       IN  \A i \in DOMAIN votes :
              (/\ i \in DOMAIN votes'
               /\ votes'[i] = votes[i]
               /\ Counted(before, votes[i])) =>
                  /\ Counted(after, votes[i])
                  /\ SelectedNode(after, votes[i])
                        = SelectedNode(before, votes[i])]_vars

\* node nodeId is registered in reg and inactive: it was expelled
Expelled(reg, nodeId) ==
    Registered(reg, nodeId) /\ ~NodeOf(reg, nodeId).active

\* no expelled node is active after the step
StaysExpelled ==
    \A n \in NodeIds : Expelled(nodes, n) => Expelled(nodes', n)

\* no expelled node is the leader of a turn or the winner of the tally
ExpelledNeverElected ==
    /\ \A t \in TurnArgs :
          get_leader_for_turn(nodes', t) # None =>
              ~Expelled(nodes', get_leader_for_turn(nodes', t)[1])
    /\ tally_votes(nodes', votes').winner # None =>
          ~Expelled(nodes', tally_votes(nodes', votes').winner[1])

\* the step stores no vote for a node that was expelled before it
ExpelledVoteRefused ==
    \A i \in DOMAIN votes' :
        Expelled(nodes, votes'[i].nodeId) =>
            \E j \in DOMAIN votes : votes[j] = votes'[i]

\* a report made by an expelled node adds no accusation and expels nobody
ExpelledReportRefused ==
    (/\ lastOp'.op = "report_leader"
     /\ Expelled(nodes, lastOp'.id)) =>
        /\ accusations' = accusations
        /\ nodes' = nodes

\* C39: an expelled node has no further influence: it is never active
\* again, also after its id is registered again, it is never the leader
\* nor the tally winner, its later votes are not stored, and its reports
\* do not count towards the expulsion of another node
C39_ExpelledHasNoInfluence ==
    [][/\ StaysExpelled
       /\ ExpelledVoteRefused
       /\ ExpelledReportRefused
       /\ ExpelledNeverElected]_vars

\* C40: whenever a seed is stored, the recorded seed-leader is the node the
\* registry designates as leader of the current turn, also after the
\* registrations and expulsions that follow the publication of the seed
C40_SeedLeaderIsCurrentLeader ==
    current_seed # None =>
        seed_leader = get_leader_for_turn(nodes, current_turn)

====
